---- MODULE Spec2Model ----
(***************************************************************************)
(* TelegramUserFetcher (stat-telegram-account.py): the session life cycle, *)
(* the identifier normaliser, the username -> phone -> ID resolution with  *)
(* its error aggregate, and get_user_info's error boundary.                *)
(*                                                                         *)
(* A Python str is a sequence of one-character strings.  The literal       *)
(* parts of an f-string are single multi-character tokens of the same      *)
(* sequence, so "the message contains the identifier" is a statement about *)
(* a contiguous run of characters and cannot be met by a literal.          *)
(***************************************************************************)
EXTENDS Integers, Sequences, FiniteSets, TLC

VARIABLES
    client,      \* self.client: None or the TelegramClient
    nclients,    \* how many TelegramClient objects were constructed
    connected,   \* client.is_connected()
    authorized,  \* client.is_user_authorized()
    op,          \* the operation that ran last
    ident,       \* the identifier the caller passed to the last get_user_info
    norm,        \* what _normalize_identifier did in the last get_user_info
    failed,      \* the stage of the last get_user_info that raised, or "none"
    calls,       \* the calls the last operation issued on the collaborator, in order
    answers,     \* what the directory answered at each call site in the last get_user_info
    result,      \* what the last operation gave back to its caller
    streak,      \* how many _ensure_started calls ran in a row, the last one included
    stopped,     \* whether _stop has released the session
    tasks        \* the coroutines in flight on the event loop, each at its await

vars == <<client, nclients, connected, authorized, op, ident, norm, failed, calls, answers,
          result, streak, stopped, tasks>>

\* ---------------------------------------------------------------- bounds

\* The longest run of digits in an identifier the caller passes.
MaxDigits == 10

\* streak counts up to here.
MaxStreak == 2

\* The coroutines the event loop runs on one fetcher at a time.
NTasks == 2

\* ---------------------------------------------------------------- strings

None == "None"

DigitChars == <<"0", "1", "2", "3", "4", "5", "6", "7", "8", "9">>

Digits == {DigitChars[k] : k \in 1..Len(DigitChars)}

IsDigit(c) == c \in Digits

DigitValues == [c \in Digits |-> (CHOOSE k \in 1..Len(DigitChars) : DigitChars[k] = c) - 1]

DigitValue(c) == DigitValues[c]

\* The characters of the model's alphabet that \s matches.
IsSpace(c) == c \in {" ", "\t"}

\* str.lower() on one character of the model's alphabet.
LowerChar(c) ==
    CASE c = "A" -> "a"
      [] c = "B" -> "b"
      [] OTHER -> c

Lower(s) == [i \in 1..Len(s) |-> LowerChar(s[i])]

\* re.sub(r'\s+', '', s)
RemoveSpaces(s) == SelectSeq(s, LAMBDA c : ~IsSpace(c))

\* re.sub(r'[^\d]', '', s)
OnlyDigits(s) == SelectSeq(s, IsDigit)

\* re.match(r'^\d+$', s)
AllDigits(s) == Len(s) > 0 /\ \A i \in 1..Len(s) : IsDigit(s[i])

\* The value of a string of decimal digits.
RECURSIVE IntOf(_)
IntOf(s) ==
    IF s = <<>> THEN 0
    ELSE 10 * IntOf(SubSeq(s, 1, Len(s) - 1)) + DigitValue(s[Len(s)])

\* sep.join(parts)
RECURSIVE Join(_, _)
Join(parts, sep) ==
    IF parts = <<>> THEN <<>>
    ELSE IF Len(parts) = 1 THEN parts[1]
    ELSE parts[1] \o sep \o Join(Tail(parts), sep)

\* needle in hay
Contains(hay, needle) ==
    \E i \in 0..(Len(hay) - Len(needle)) :
        \A j \in 1..Len(needle) : hay[i + j] = needle[j]

\* ---------------------------------------------------------------- exceptions

\* An exception is its class and its str(e).
UsernameNotOccupiedError ==
    [cls |-> "UsernameNotOccupiedError", msg |-> <<"The username is not in use by anyone else yet">>]
PhoneNumberInvalidError ==
    [cls |-> "PhoneNumberInvalidError", msg |-> <<"The phone number is invalid">>]
UserIdInvalidError ==
    [cls |-> "UserIdInvalidError", msg |-> <<"Invalid object ID for a user">>]
\* An RPC error that is none of the imported classes and names the server's code.
RpcNotOccupied ==
    [cls |-> "RPCError", msg |-> <<"RPCError 400: ", "USERNAME_NOT_OCCUPIED">>]
\* The directory service is unreachable.
TransportError ==
    [cls |-> "ConnectionError", msg |-> <<"Cannot send requests while disconnected">>]
\* The full profile lacks an attribute the formatter reads.
AttributeError ==
    [cls |-> "AttributeError", msg |-> <<"object has no attribute 'profile_photos'">>]

ValueError(msg) == [cls |-> "ValueError", msg |-> msg]

\* isinstance(e, Exception): every class above derives from Exception.
IsException(e) ==
    e.cls \in {"UsernameNotOccupiedError", "UsernameNotModifiedError",
               "PhoneNumberInvalidError", "PeerIdInvalidError", "UserIdInvalidError",
               "RPCError", "ConnectionError", "AttributeError", "ValueError"}

Str(e) == e.msg

Return(v) == [ok |-> TRUE, value |-> v]
Raise(e) == [ok |-> FALSE, exc |-> e]

\* ---------------------------------------------------------------- the collaborator

\* The call sites of the external client in the source.
GetEntityCall(site, arg) == [fn |-> "get_entity", site |-> site, arg |-> arg]
FetchCall(entity) == [fn |-> "GetFullUserRequest", site |-> "fetch", arg |-> entity]
SessionCall(fn) == [fn |-> fn, site |-> "session", arg |-> None]

\* The telethon User a successful get_entity returns; the directory answers each
\* call site with a user of its own, so a handle tells which attempt produced it.
UserFor(site) ==
    CASE site = "username" ->
           [id |-> 101, access_hash |-> 9001, first_name |-> "Pavel", last_name |-> "",
            username |-> "durov", phone |-> None, bot |-> FALSE, premium |-> TRUE,
            verified |-> TRUE, scam |-> FALSE, status |-> "UserStatusOnline"]
      [] site = "phone" ->
           [id |-> 102, access_hash |-> 9002, first_name |-> "", last_name |-> "Doe",
            username |-> None, phone |-> "10123456789", bot |-> FALSE, premium |-> FALSE,
            verified |-> FALSE, scam |-> FALSE, status |-> None]
      [] OTHER ->
           [id |-> 103, access_hash |-> 9003, first_name |-> "Bot", last_name |-> None,
            username |-> "some_bot", phone |-> None, bot |-> TRUE, premium |-> FALSE,
            verified |-> FALSE, scam |-> TRUE, status |-> None]

Photo(n) ==
    [id |-> n, dc_id |-> 2, has_stickers |-> FALSE,
     sizes |-> <<[w |-> 160, h |-> 160, type |-> "a"], [w |-> 640, h |-> 640, type |-> "c"]>>]

\* The full_user records GetFullUserRequest answers with: an attribute the record
\* lacks is a field outside its DOMAIN.
FullUsers ==
    { [about |-> "Bio", has_presentation |-> TRUE, profile_photos |-> <<Photo(1), Photo(2)>>],
      [profile_photos |-> <<>>],
      [about |-> "Bio"] }

\* What the directory may answer at each call site.
Answers(site) ==
    CASE site = "username" ->
           {Return(UserFor(site)), Raise(UsernameNotOccupiedError),
            Raise(RpcNotOccupied), Raise(TransportError)}
      [] site = "phone" ->
           {Return(UserFor(site)), Raise(PhoneNumberInvalidError), Raise(TransportError)}
      [] site = "id" ->
           {Return(UserFor(site)), Raise(UserIdInvalidError), Raise(TransportError)}
      [] site = "fetch" ->
           {Return([full_user |-> fu]) : fu \in FullUsers} \cup {Raise(TransportError)}

\* The answer slot of a call that is not made.
NoAnswer == Raise(TransportError)

\* ---------------------------------------------------------------- _normalize_identifier

NormalizeIdentifier(identifier) ==
    IF identifier = <<>>
    THEN Raise(ValueError(<<"Identifier cannot be empty">>))
    ELSE Return(RemoveSpaces(Lower(identifier)))

\* ---------------------------------------------------------------- _resolve_entity

\* The least number of digits the phone attempt asks for.
MinPhoneDigits == 10

\* What the username attempt's except clauses append to errors.
UsernameErrors(e) ==
    IF e.cls \in {"UsernameNotOccupiedError", "UsernameNotModifiedError"}
    THEN << <<"Username failed: ">> \o Str(e) >>
    ELSE IF Contains(Str(e), <<"USERNAME_NOT_OCCUPIED">>)
    THEN <<>>
    ELSE << <<"Username error: ">> \o Str(e) >>

PhoneErrors(e) ==
    IF e.cls \in {"PhoneNumberInvalidError", "PeerIdInvalidError"}
    THEN << <<"Phone failed: ">> \o Str(e) >>
    ELSE << <<"Phone error: ">> \o Str(e) >>

IdErrors(e) ==
    IF e.cls \in {"UserIdInvalidError", "ValueError"}
    THEN << <<"ID failed: ">> \o Str(e) >>
    ELSE << <<"ID error: ">> \o Str(e) >>

\* The bound taken one digit too low.
PhoneAttemptedOffByOne(identifier) == Len(OnlyDigits(identifier)) >= MinPhoneDigits - 1

\* len(phone_digits) >= 10
PhoneAttempted(identifier) == Len(OnlyDigits(identifier)) >= MinPhoneDigits

\* The test made on the identifier with its sign taken off.
IdAttemptedSignStripped(identifier) ==
    \/ AllDigits(identifier)
    \/ identifier # <<>> /\ Head(identifier) = "+" /\ AllDigits(Tail(identifier))

\* re.match(r'^\d+$', identifier)
IdAttempted(identifier) == AllDigits(identifier)

\* int(identifier): decimal digits after an optional sign, or ValueError.
ParseInt(identifier) ==
    IF AllDigits(identifier)
    THEN Return(IntOf(identifier))
    ELSE IF identifier # <<>> /\ Head(identifier) = "+" /\ AllDigits(Tail(identifier))
    THEN Return(IntOf(Tail(identifier)))
    ELSE Raise(ValueError(<<"invalid literal for int() with base 10">>))

CannotResolve(identifier, errors) ==
    ValueError(<<"Cannot resolve \"">> \o identifier \o <<"\". Tried: ">>
               \o Join(errors, <<"; ">>))

\* The resolution with the phone attempt's return lost: a phone success falls
\* through to the ID attempt, and the last success wins.
ResolveEntityFallsThrough(identifier, u, p, i) ==
    LET call1 == <<GetEntityCall("username", identifier)>>
        phone == <<"+">> \o OnlyDigits(identifier)
        call2 == IF PhoneAttempted(identifier)
                 THEN call1 \o <<GetEntityCall("phone", phone)>> ELSE call1
        call3 == IF IdAttempted(identifier)
                 THEN call2 \o <<GetEntityCall("id", IntOf(identifier))>> ELSE call2
        errors3 == (IF u.ok THEN <<>> ELSE UsernameErrors(u.exc))
                   \o (IF PhoneAttempted(identifier) /\ ~p.ok THEN PhoneErrors(p.exc) ELSE <<>>)
                   \o (IF IdAttempted(identifier) /\ ~i.ok THEN IdErrors(i.exc) ELSE <<>>)
    IN  IF u.ok
        THEN [calls |-> call1, errors |-> <<>>, out |-> Return(u.value)]
        ELSE IF IdAttempted(identifier) /\ i.ok
        THEN [calls |-> call3, errors |-> errors3, out |-> Return(i.value)]
        ELSE IF PhoneAttempted(identifier) /\ p.ok
        THEN [calls |-> call3, errors |-> errors3, out |-> Return(p.value)]
        ELSE [calls |-> call3, errors |-> errors3,
              out |-> Raise(CannotResolve(identifier, errors3))]

\* The resolution with only the typed except clauses: a failure of the username
\* or the phone call that is none of the imported classes leaves _resolve_entity.
ResolveEntityTypedOnly(identifier, u, p, i) ==
    LET call1 == <<GetEntityCall("username", identifier)>>
        errors1 == IF u.ok THEN <<>> ELSE UsernameErrors(u.exc)
        phone == <<"+">> \o OnlyDigits(identifier)
        call2 == IF PhoneAttempted(identifier)
                 THEN call1 \o <<GetEntityCall("phone", phone)>> ELSE call1
        errors2 == IF PhoneAttempted(identifier) /\ ~p.ok
                   THEN errors1 \o PhoneErrors(p.exc) ELSE errors1
        call3 == IF IdAttempted(identifier)
                 THEN call2 \o <<GetEntityCall("id", IntOf(identifier))>> ELSE call2
        errors3 == IF IdAttempted(identifier) /\ ~i.ok
                   THEN errors2 \o IdErrors(i.exc) ELSE errors2
    IN  IF u.ok
        THEN [calls |-> call1, errors |-> errors1, out |-> Return(u.value)]
        ELSE IF u.exc.cls \notin {"UsernameNotOccupiedError", "UsernameNotModifiedError"}
        THEN [calls |-> call1, errors |-> errors1, out |-> Raise(u.exc)]
        ELSE IF PhoneAttempted(identifier) /\ p.ok
        THEN [calls |-> call2, errors |-> errors2, out |-> Return(p.value)]
        ELSE IF PhoneAttempted(identifier)
                /\ p.exc.cls \notin {"PhoneNumberInvalidError", "PeerIdInvalidError"}
        THEN [calls |-> call2, errors |-> errors2, out |-> Raise(p.exc)]
        ELSE IF IdAttempted(identifier) /\ i.ok
        THEN [calls |-> call3, errors |-> errors3, out |-> Return(i.value)]
        ELSE [calls |-> call3, errors |-> errors3,
              out |-> Raise(CannotResolve(identifier, errors3))]

\* u, p, i: the directory's answers to the username, phone and ID calls.
ResolveEntity(identifier, u, p, i) ==
    LET call1 == <<GetEntityCall("username", identifier)>>
        errors1 == IF u.ok THEN <<>> ELSE UsernameErrors(u.exc)
        phone == <<"+">> \o OnlyDigits(identifier)
        call2 == IF PhoneAttempted(identifier)
                 THEN call1 \o <<GetEntityCall("phone", phone)>> ELSE call1
        errors2 == IF PhoneAttempted(identifier) /\ ~p.ok
                   THEN errors1 \o PhoneErrors(p.exc) ELSE errors1
        uid == ParseInt(identifier)
        idCalled == IdAttempted(identifier) /\ uid.ok
        call3 == IF idCalled
                 THEN call2 \o <<GetEntityCall("id", uid.value)>> ELSE call2
        errors3 == IF ~IdAttempted(identifier) THEN errors2
                   ELSE IF ~uid.ok THEN errors2 \o IdErrors(uid.exc)
                   ELSE IF ~i.ok THEN errors2 \o IdErrors(i.exc)
                   ELSE errors2
    IN  IF u.ok
        THEN [calls |-> call1, errors |-> errors1, out |-> Return(u.value)]
        ELSE IF PhoneAttempted(identifier) /\ p.ok
        THEN [calls |-> call2, errors |-> errors2, out |-> Return(p.value)]
        ELSE IF idCalled /\ i.ok
        THEN [calls |-> call3, errors |-> errors3, out |-> Return(i.value)]
        ELSE [calls |-> call3, errors |-> errors3,
              out |-> Raise(CannotResolve(identifier, errors3))]

\* ---------------------------------------------------------------- _format_user_info

HasAttr(obj, name) == name \in DOMAIN obj

\* getattr(obj, name, default)
GetAttr(obj, name, default) == IF HasAttr(obj, name) THEN obj[name] ELSE default

\* x or None, for a str or None
OrNone(x) == IF x = "" \/ x = None THEN None ELSE x

\* str(user.status): every object has __str__, None included.
StatusStr(status) == IF status = None THEN "str(None)" ELSE status

PhotoInfo(photo) ==
    [id |-> photo.id, dc_id |-> photo.dc_id, has_stickers |-> photo.has_stickers,
     sizes |-> [k \in 1..Len(photo.sizes) |->
                  [w |-> photo.sizes[k].w, h |-> photo.sizes[k].h,
                   type |-> photo.sizes[k].type]]]

FormatUserInfo(user, full_user) ==
    IF ~HasAttr(full_user, "profile_photos")
    THEN Raise(AttributeError)
    ELSE
      LET photos == full_user.profile_photos
          info ==
            [id |-> user.id,
             access_hash |-> user.access_hash,
             first_name |-> OrNone(user.first_name),
             last_name |-> OrNone(user.last_name),
             username |-> user.username,
             phone |-> GetAttr(user, "phone", None),
             is_bot |-> user.bot,
             is_premium |-> GetAttr(user, "premium", FALSE),
             is_verified |-> user.verified,
             is_scam |-> GetAttr(user, "scam", FALSE),
             status |-> StatusStr(user.status),
             about |-> GetAttr(full_user, "about", None),
             profile_photos_count |-> IF photos # <<>> THEN Len(photos) ELSE 0,
             has_video_profile_photo |-> GetAttr(full_user, "has_presentation", FALSE)]
      IN  IF photos # <<>>
          THEN Return(info @@ [profile_photo |-> PhotoInfo(photos[1])])
          ELSE Return(info)

\* ---------------------------------------------------------------- the session

\* The transport's and the login's answers to one _ensure_started.
SessionAnswers == [connect : BOOLEAN, login : BOOLEAN]

\* client.start(): connect if needed, then log in if the session is not authorized.
ClientStart(conn, auth, sc) ==
    IF ~conn /\ ~sc.connect
    THEN [connected |-> FALSE, authorized |-> auth, out |-> Raise(TransportError)]
    ELSE IF ~auth /\ ~sc.login
    THEN [connected |-> TRUE, authorized |-> FALSE, out |-> Raise(PhoneNumberInvalidError)]
    ELSE [connected |-> TRUE, authorized |-> TRUE, out |-> Return(None)]

\* client.connect()
ClientConnect(conn, auth, sc) ==
    IF sc.connect
    THEN [connected |-> TRUE, authorized |-> auth, out |-> Return(None)]
    ELSE [connected |-> FALSE, authorized |-> auth, out |-> Raise(TransportError)]

\* self.client = TelegramClient(...); await self.client.start()
FreshStart(conn, auth, sc) ==
    LET s == ClientStart(conn, auth, sc)
    IN  [client |-> "client", created |-> 1,
         connected |-> s.connected, authorized |-> s.authorized,
         calls |-> <<SessionCall("TelegramClient"), SessionCall("start")>>,
         out |-> s.out]

\* await self.client.connect(); if not authorized: await self.client.start()
Reconnect(cl, conn, auth, sc) ==
    LET c == ClientConnect(conn, auth, sc)
        s == ClientStart(c.connected, c.authorized, sc)
    IN  IF c.out.ok /\ ~c.authorized
        THEN [client |-> cl, created |-> 0,
              connected |-> s.connected, authorized |-> s.authorized,
              calls |-> <<SessionCall("connect"), SessionCall("start")>>,
              out |-> s.out]
        ELSE [client |-> cl, created |-> 0,
              connected |-> c.connected, authorized |-> c.authorized,
              calls |-> <<SessionCall("connect")>>, out |-> c.out]

\* _ensure_started without the is_connected() test.
EnsureStartedAlwaysConnects(cl, conn, auth, sc) ==
    IF cl = None
    THEN FreshStart(conn, auth, sc)
    ELSE Reconnect(cl, conn, auth, sc)

\* _ensure_started that only tests `self.client is None`.
EnsureStartedOnce(cl, conn, auth, sc) ==
    IF cl = None
    THEN FreshStart(conn, auth, sc)
    ELSE [client |-> cl, created |-> 0, connected |-> conn, authorized |-> auth,
          calls |-> <<>>, out |-> Return(None)]

\* _ensure_started on a fetcher whose client is cl (None or "client").
EnsureStartedRun(cl, conn, auth, sc) ==
    IF cl = None
    THEN FreshStart(conn, auth, sc)
    ELSE IF ~conn
    THEN Reconnect(cl, conn, auth, sc)
    ELSE [client |-> cl, created |-> 0, connected |-> conn, authorized |-> auth,
          calls |-> <<>>, out |-> Return(None)]

\* _stop that also forgets the client.
StopRunDropsClient(cl, conn) ==
    IF cl # None /\ conn
    THEN [client |-> None, connected |-> FALSE, calls |-> <<SessionCall("disconnect")>>]
    ELSE [client |-> cl, connected |-> conn, calls |-> <<>>]

\* _stop without the is_connected() test.
StopRunUnguarded(cl, conn) ==
    IF cl # None
    THEN [client |-> cl, connected |-> FALSE, calls |-> <<SessionCall("disconnect")>>]
    ELSE [client |-> cl, connected |-> conn, calls |-> <<>>]

\* _stop
StopRun(cl, conn) ==
    IF cl # None /\ conn
    THEN [client |-> cl, connected |-> FALSE, calls |-> <<SessionCall("disconnect")>>]
    ELSE [client |-> cl, connected |-> conn, calls |-> <<>>]

\* ---------------------------------------------------------------- get_user_info

NotReached == [reached |-> FALSE]
Normalized(n) == [reached |-> TRUE, out |-> n]

\* The error record built from the normalized identifier.
ErrorRecordNormalized(identifier, e) ==
    [error |-> TRUE,
     message |-> <<"Failed to fetch user info for \"">> \o RemoveSpaces(Lower(identifier))
                   \o <<"\": ">> \o Str(e),
     identifier |-> RemoveSpaces(Lower(identifier))]

ErrorRecord(identifier, e) ==
    [error |-> TRUE,
     message |-> <<"Failed to fetch user info for \"">> \o identifier \o <<"\": ">> \o Str(e),
     identifier |-> identifier]

\* The body with GetFullUserRequest(id=norm_identifier): the request made for the
\* identifier and not for the resolved user.
TryBodyFetchesByIdentifier(identifier, st, u, p, i, f) ==
    LET n == NormalizeIdentifier(identifier)
        r == ResolveEntity(n.value, u, p, i)
        entity == r.out.value
        fmt == FormatUserInfo(entity, f.value.full_user)
    IN  IF ~st.out.ok
        THEN [failed |-> "start", norm |-> NotReached, calls |-> st.calls, out |-> st.out]
        ELSE IF ~n.ok
        THEN [failed |-> "normalize", norm |-> Normalized(n), calls |-> st.calls, out |-> n]
        ELSE IF ~r.out.ok
        THEN [failed |-> "resolve", norm |-> Normalized(n),
              calls |-> st.calls \o r.calls, out |-> r.out]
        ELSE IF ~f.ok
        THEN [failed |-> "fetch", norm |-> Normalized(n),
              calls |-> st.calls \o r.calls \o <<FetchCall(n.value)>>, out |-> f]
        ELSE [failed |-> IF fmt.ok THEN "none" ELSE "format", norm |-> Normalized(n),
              calls |-> st.calls \o r.calls \o <<FetchCall(n.value)>>, out |-> fmt]

\* The body of the try block, after _ensure_started ran as st.
TryBody(identifier, st, u, p, i, f) ==
    LET n == NormalizeIdentifier(identifier)
        r == ResolveEntity(n.value, u, p, i)
        entity == r.out.value
        fmt == FormatUserInfo(entity, f.value.full_user)
    IN  IF ~st.out.ok
        THEN [failed |-> "start", norm |-> NotReached, calls |-> st.calls, out |-> st.out]
        ELSE IF ~n.ok
        THEN [failed |-> "normalize", norm |-> Normalized(n), calls |-> st.calls, out |-> n]
        ELSE IF ~r.out.ok
        THEN [failed |-> "resolve", norm |-> Normalized(n),
              calls |-> st.calls \o r.calls, out |-> r.out]
        ELSE IF ~f.ok
        THEN [failed |-> "fetch", norm |-> Normalized(n),
              calls |-> st.calls \o r.calls \o <<FetchCall(entity)>>, out |-> f]
        ELSE [failed |-> IF fmt.ok THEN "none" ELSE "format", norm |-> Normalized(n),
              calls |-> st.calls \o r.calls \o <<FetchCall(entity)>>, out |-> fmt]

Returned(v) == [kind |-> "returned", value |-> v]
Raised(e) == [kind |-> "raised", exc |-> e]
NoResult == [kind |-> "none"]

\* except ValueError as e: return {...}
ExceptValueErrorOnly(identifier, out) ==
    IF out.ok THEN Returned(out.value)
    ELSE IF out.exc.cls = "ValueError" THEN Returned(ErrorRecord(identifier, out.exc))
    ELSE Raised(out.exc)

\* except Exception as e: return {...}
ExceptClause(identifier, out) ==
    IF out.ok THEN Returned(out.value)
    ELSE IF IsException(out.exc) THEN Returned(ErrorRecord(identifier, out.exc))
    ELSE Raised(out.exc)

GetUserInfoRun(identifier, st, u, p, i, f) ==
    LET body == TryBody(identifier, st, u, p, i, f)
    IN  [failed |-> body.failed, norm |-> body.norm, calls |-> body.calls,
         result |-> ExceptClause(identifier, body.out)]

\* ---------------------------------------------------------------- inputs

\* The first n digits of 0123456789 0123...
DigitRun(n) == [k \in 1..n |-> DigitChars[((k - 1) % 10) + 1]]

DigitCounts == {0} \cup ((MinPhoneDigits - 1)..MaxDigits)

Prefixes == { <<>>, <<"@">>, <<"+", " ">> }

Suffixes == { <<>>, <<" ", "A", "b">> }

Blank == <<" ", "\t">>

\* The identifiers a caller passes: a sigil or none, a run of digits, letters or
\* none, as in  +0123456789,  @ab,  0123456789 Ab,  and the empty and the blank one.
Identifiers ==
    { pre \o DigitRun(n) \o suf : pre \in Prefixes, n \in DigitCounts, suf \in Suffixes }
        \cup {Blank}

\* An answer of the transport or the login that no call asked for is left TRUE.
AnswersAsked(cl, conn, auth, sc) ==
    /\ EnsureStartedRun(cl, conn, auth, [sc EXCEPT !.connect = ~@])
          = EnsureStartedRun(cl, conn, auth, sc) => sc.connect
    /\ EnsureStartedRun(cl, conn, auth, [sc EXCEPT !.login = ~@])
          = EnsureStartedRun(cl, conn, auth, sc) => sc.login

\* Whether a run issued the call at a site.
Asked(run, site) == \E k \in 1..Len(run.calls) : run.calls[k].site = site

\* The directory answers the calls that are made, and only those.
AnswersFor(site, run) == IF Asked(run, site) THEN Answers(site) ELSE {NoAnswer}

\* ---------------------------------------------------------------- the state machine

Tasks == 1..NTasks

\* A coroutine slot of the event loop with nothing in flight.
IdleTask == [pc |-> "idle", kind |-> "none", identifier |-> <<>>]

NoAnswers == [username |-> NoAnswer, phone |-> NoAnswer, id |-> NoAnswer, fetch |-> NoAnswer]

\* __init__: no client yet; the session file may hold an authorization.
Init ==
    /\ client = None
    /\ nclients = 0
    /\ connected = FALSE
    /\ authorized \in BOOLEAN
    /\ op = "init"
    /\ ident = <<>>
    /\ norm = NotReached
    /\ failed = "none"
    /\ calls = <<>>
    /\ answers = NoAnswers
    /\ result = NoResult
    /\ streak = 0
    /\ stopped = FALSE
    /\ tasks = [t \in Tasks |-> IdleTask]

\* _ensure_started called by the owner (__aenter__).
EnsureStarted ==
    \E sc \in {x \in SessionAnswers : AnswersAsked(client, connected, authorized, x)} :
    \E st \in {EnsureStartedRun(client, connected, authorized, sc)} :
        /\ client' = st.client
        /\ nclients' = nclients + st.created
        /\ connected' = st.connected
        /\ authorized' = st.authorized
        /\ op' = "ensure_started"
        /\ ident' = <<>>
        /\ norm' = NotReached
        /\ failed' = "none"
        /\ calls' = st.calls
        /\ answers' = NoAnswers
        /\ result' = IF st.out.ok THEN Returned(None) ELSE Raised(st.out.exc)
        /\ streak' = IF streak < MaxStreak THEN streak + 1 ELSE streak
        /\ UNCHANGED <<stopped, tasks>>

\* _stop called by the owner (__aexit__).
Stop ==
    \E st \in {StopRun(client, connected)} :
        /\ client' = st.client
        /\ connected' = st.connected
        /\ op' = "stop"
        /\ ident' = <<>>
        /\ norm' = NotReached
        /\ failed' = "none"
        /\ calls' = st.calls
        /\ answers' = NoAnswers
        /\ result' = Returned(None)
        /\ streak' = 0
        /\ stopped' = (stopped \/ st.calls # <<>>)
        /\ UNCHANGED <<nclients, authorized, tasks>>

\* get_user_info with `finally: await self._stop()`.
GetUserInfoThenStop ==
    \E sc \in {x \in SessionAnswers : AnswersAsked(client, connected, authorized, x)} :
    \E st \in {EnsureStartedRun(client, connected, authorized, sc)} :
    \E identifier \in Identifiers :
    \E u \in AnswersFor("username",
               GetUserInfoRun(identifier, st, NoAnswer, NoAnswer, NoAnswer, NoAnswer)) :
    \E p \in AnswersFor("phone",
               GetUserInfoRun(identifier, st, u, NoAnswer, NoAnswer, NoAnswer)) :
    \E i \in AnswersFor("id",
               GetUserInfoRun(identifier, st, u, p, NoAnswer, NoAnswer)) :
    \E f \in AnswersFor("fetch",
               GetUserInfoRun(identifier, st, u, p, i, NoAnswer)) :
    \E run \in {GetUserInfoRun(identifier, st, u, p, i, f)} :
    \E fin \in {StopRun(st.client, st.connected)} :
        /\ client' = fin.client
        /\ nclients' = nclients + st.created
        /\ connected' = fin.connected
        /\ authorized' = st.authorized
        /\ op' = "get_user_info"
        /\ ident' = identifier
        /\ norm' = run.norm
        /\ failed' = run.failed
        /\ calls' = run.calls \o fin.calls
        /\ answers' = [username |-> u, phone |-> p, id |-> i, fetch |-> f]
        /\ result' = run.result
        /\ streak' = 0
        /\ UNCHANGED <<stopped, tasks>>

\* get_user_info(identifier)
GetUserInfo ==
    \E sc \in {x \in SessionAnswers : AnswersAsked(client, connected, authorized, x)} :
    \E st \in {EnsureStartedRun(client, connected, authorized, sc)} :
    \E identifier \in Identifiers :
    \E u \in AnswersFor("username",
               GetUserInfoRun(identifier, st, NoAnswer, NoAnswer, NoAnswer, NoAnswer)) :
    \E p \in AnswersFor("phone",
               GetUserInfoRun(identifier, st, u, NoAnswer, NoAnswer, NoAnswer)) :
    \E i \in AnswersFor("id",
               GetUserInfoRun(identifier, st, u, p, NoAnswer, NoAnswer)) :
    \E f \in AnswersFor("fetch",
               GetUserInfoRun(identifier, st, u, p, i, NoAnswer)) :
    \E run \in {GetUserInfoRun(identifier, st, u, p, i, f)} :
        /\ client' = st.client
        /\ nclients' = nclients + st.created
        /\ connected' = st.connected
        /\ authorized' = st.authorized
        /\ op' = "get_user_info"
        /\ ident' = identifier
        /\ norm' = run.norm
        /\ failed' = run.failed
        /\ calls' = run.calls
        /\ answers' = [username |-> u, phone |-> p, id |-> i, fetch |-> f]
        /\ result' = run.result
        /\ streak' = 0
        /\ UNCHANGED <<stopped, tasks>>

\* The network drops the connection.
ConnectionDrop ==
    /\ client # None
    /\ connected
    /\ connected' = FALSE
    /\ op' = "drop"
    /\ ident' = <<>>
    /\ norm' = NotReached
    /\ failed' = "none"
    /\ calls' = <<>>
    /\ answers' = NoAnswers
    /\ result' = NoResult
    /\ streak' = 0
    /\ UNCHANGED <<client, nclients, authorized, stopped, tasks>>

Next ==
    \/ EnsureStarted
    \/ Stop
    \/ GetUserInfo
    \/ ConnectionDrop

Spec == Init /\ [][Next]_vars

\* ---------------------------------------------------------------- the event loop

\* Coroutines of one fetcher interleave at their awaits and nowhere else: a step
\* below runs one coroutine from where it was resumed to its next await.

\* What the steps of the event loop leave alone.
lookupVars == <<ident, norm, failed, calls, answers, result, streak>>

\* The identifiers of the concurrent lookups: one that normalization rejects and
\* one it accepts.
ConcIdentifiers == { <<>>, <<"@">> }

\* _ensure_started that builds a client whenever there is no live connection.
EnsureStartedBeginRecreates(cl, conn) ==
    IF cl = None \/ ~conn
    THEN [client |-> "client", created |-> 1, await |-> "start"]
    ELSE [client |-> cl, created |-> 0, await |-> "none"]

\* _ensure_started from its call to its first await: the test of self.client and
\* the assignment run with no await between them.
EnsureStartedBegin(cl, conn) ==
    IF cl = None
    THEN [client |-> "client", created |-> 1, await |-> "start"]
    ELSE IF ~conn
    THEN [client |-> cl, created |-> 0, await |-> "connect"]
    ELSE [client |-> cl, created |-> 0, await |-> "none"]

\* Where a coroutine goes on when its _ensure_started has returned: __aenter__
\* returns; get_user_info normalizes and, unless that raises, awaits get_entity.
AfterStarted(task) ==
    IF task.kind = "get_user_info" /\ NormalizeIdentifier(task.identifier).ok
    THEN [task EXCEPT !.pc = "get_entity"]
    ELSE IdleTask

Begun(task, b) == IF b.await = "none" THEN AfterStarted(task) ELSE [task EXCEPT !.pc = b.await]

\* A coroutine calls _ensure_started and runs to its first await.
CallEnsureStarted(t) ==
    /\ tasks[t].pc = "idle"
    /\ \E b \in {EnsureStartedBegin(client, connected)} :
          /\ client' = b.client
          /\ nclients' = nclients + b.created
          /\ tasks' = [tasks EXCEPT ![t] =
                          Begun([pc |-> "idle", kind |-> "ensure_started",
                                 identifier |-> <<>>], b)]
    /\ op' = "ensure_started"
    /\ UNCHANGED <<connected, authorized, stopped, lookupVars>>

\* A coroutine calls get_user_info and runs to its first await.
CallGetUserInfo(t) ==
    /\ tasks[t].pc = "idle"
    /\ \E identifier \in ConcIdentifiers :
       \E b \in {EnsureStartedBegin(client, connected)} :
          /\ client' = b.client
          /\ nclients' = nclients + b.created
          /\ tasks' = [tasks EXCEPT ![t] =
                          Begun([pc |-> "idle", kind |-> "get_user_info",
                                 identifier |-> identifier], b)]
    /\ op' = "get_user_info"
    /\ UNCHANGED <<connected, authorized, stopped, lookupVars>>

\* await self.client.start() returns or raises.
StartReturns(t) ==
    /\ tasks[t].pc = "start"
    /\ \E sc \in SessionAnswers :
       \E s \in {ClientStart(connected, authorized, sc)} :
          /\ connected' = s.connected
          /\ authorized' = s.authorized
          /\ tasks' = [tasks EXCEPT ![t] = IF s.out.ok THEN AfterStarted(@) ELSE IdleTask]
    /\ op' = "start"
    /\ UNCHANGED <<client, nclients, stopped, lookupVars>>

\* await self.client.connect() returns or raises; on return the coroutine goes
\* on to start() when the session is not authorized.
ConnectReturns(t) ==
    /\ tasks[t].pc = "connect"
    /\ \E sc \in SessionAnswers :
       \E c \in {ClientConnect(connected, authorized, sc)} :
          /\ connected' = c.connected
          /\ authorized' = c.authorized
          /\ tasks' = [tasks EXCEPT ![t] =
                          IF ~c.out.ok THEN IdleTask
                          ELSE IF ~c.authorized THEN [@ EXCEPT !.pc = "start"]
                          ELSE AfterStarted(@)]
    /\ op' = "connect"
    /\ UNCHANGED <<client, nclients, stopped, lookupVars>>

\* The awaits of _resolve_entity end: with a user, or with every attempt failed,
\* as they all do without a connection.
GetEntityReturns(t) ==
    /\ tasks[t].pc = "get_entity"
    /\ \E resolved \in {r \in BOOLEAN : r => connected} :
          tasks' = [tasks EXCEPT ![t] =
                      IF resolved THEN [@ EXCEPT !.pc = "GetFullUserRequest"] ELSE IdleTask]
    /\ op' = "get_entity"
    /\ UNCHANGED <<client, nclients, connected, authorized, stopped, lookupVars>>

\* await self.client(GetFullUserRequest(...)) ends and get_user_info returns.
FetchReturns(t) ==
    /\ tasks[t].pc = "GetFullUserRequest"
    /\ tasks' = [tasks EXCEPT ![t] = IdleTask]
    /\ op' = "GetFullUserRequest"
    /\ UNCHANGED <<client, nclients, connected, authorized, stopped, lookupVars>>

\* A coroutine calls _stop and runs to its await of disconnect(), if it has one.
CallStop(t) ==
    /\ tasks[t].pc = "idle"
    /\ \E st \in {StopRun(client, connected)} :
          /\ client' = st.client
          /\ tasks' = [tasks EXCEPT ![t] =
                          IF st.calls # <<>>
                          THEN [pc |-> "disconnect", kind |-> "stop", identifier |-> <<>>]
                          ELSE IdleTask]
    /\ op' = "stop"
    /\ UNCHANGED <<nclients, connected, authorized, stopped, lookupVars>>

\* await self.client.disconnect() returns.
DisconnectReturns(t) ==
    /\ tasks[t].pc = "disconnect"
    /\ connected' = FALSE
    /\ stopped' = TRUE
    /\ tasks' = [tasks EXCEPT ![t] = IdleTask]
    /\ op' = "disconnect"
    /\ UNCHANGED <<client, nclients, authorized, lookupVars>>

NextConc ==
    \/ \E t \in Tasks :
          \/ CallEnsureStarted(t)
          \/ CallGetUserInfo(t)
          \/ StartReturns(t)
          \/ ConnectReturns(t)
          \/ GetEntityReturns(t)
          \/ FetchReturns(t)
          \/ CallStop(t)
          \/ DisconnectReturns(t)
    \/ ConnectionDrop

SpecConc == Init /\ [][NextConc]_vars

\* ---------------------------------------------------------------- properties

Lookup == op = "get_user_info"

\* The get_entity calls of the last operation, in order.
ResolveCalls == SelectSeq(calls, LAMBDA c : c.fn = "get_entity")

FetchCalls == SelectSeq(calls, LAMBDA c : c.fn = "GetFullUserRequest")

\* The last get_user_info handed a normalized identifier to _resolve_entity.
ResolutionRan == Lookup /\ norm.reached /\ norm.out.ok

IsErrorResult == Lookup /\ result.kind = "returned" /\ "error" \in DOMAIN result.value

SiteRank(site) ==
    CASE site = "username" -> 1
      [] site = "phone" -> 2
      [] site = "id" -> 3

IsBlankStr(s) == \A k \in 1..Len(s) : IsSpace(s[k])

\* C1: the get_entity calls of a resolution come in the order username, phone, ID;
\* the first is the username call with the normalized identifier as it is; every
\* call but the last failed; a last call that succeeded hands its user on and a
\* last call that failed fails the resolution; and for an identifier of 10 or more
\* digits and nothing else whose username call fails, the phone call is made and
\* the ID call is made exactly when the phone call fails.
C1_AttemptOrder ==
    ResolutionRan =>
        LET R == ResolveCalls
            n == norm.out.value
            last == R[Len(R)]
        IN  /\ Len(R) >= 1
            /\ R[1].site = "username"
            /\ R[1].arg = n
            /\ \A k \in 1..(Len(R) - 1) :
                   /\ SiteRank(R[k].site) < SiteRank(R[k + 1].site)
                   /\ ~answers[R[k].site].ok
            /\ answers[last.site].ok =>
                   /\ failed # "resolve"
                   /\ Len(FetchCalls) = 1
                   /\ FetchCalls[1].arg = answers[last.site].value
            /\ ~answers[last.site].ok => failed = "resolve"
            /\ (AllDigits(n) /\ Len(n) >= 10 /\ ~answers.username.ok) =>
                   /\ Len(R) >= 2
                   /\ R[2].site = "phone"
                   /\ (Len(R) = 3) <=> ~answers.phone.ok

\* A 10-digit identifier whose username call failed and whose phone call succeeded:
\* two calls, no ID call, and the lookup went on to the profile.
C1_Witness ==
    /\ ResolutionRan
    /\ ident = DigitRun(10)
    /\ ~answers.username.ok
    /\ answers.phone.ok
    /\ Len(ResolveCalls) = 2
    /\ failed = "none"

ReasonTokens ==
    UNION { {e.msg[k] : k \in 1..Len(e.msg)} :
            e \in {UsernameNotOccupiedError, PhoneNumberInvalidError, UserIdInvalidError,
                    RpcNotOccupied, TransportError} }

\* The failure reasons of the calls of the last resolution, one after the other.
RECURSIVE ReasonsOf(_)
ReasonsOf(R) ==
    IF R = <<>> THEN <<>>
    ELSE Str(answers[Head(R).site].exc) \o ReasonsOf(Tail(R))

\* C3: when no strategy succeeds, the error message holds the failure reason of
\* every attempt made, once each and in attempt order, the username attempt's
\* "not occupied" failures included.
C3_AllReasonsInOrder ==
    (Lookup /\ failed = "resolve") =>
        SelectSeq(result.value.message, LAMBDA t : t \in ReasonTokens) = ReasonsOf(ResolveCalls)

\* C4: an error record carries the identifier as the caller passed it, and its
\* message contains that identifier.
C4_ErrorCarriesRawIdentifier ==
    IsErrorResult =>
        /\ result.value.identifier = ident
        /\ Contains(result.value.message, ident)

\* An error record for an identifier that normalization changed.
C4_Witness ==
    /\ IsErrorResult
    /\ ResolutionRan
    /\ norm.out.value # ident
    /\ norm.out.value # <<>>
    /\ result.value.identifier = ident

\* C5: _normalize_identifier raises on an empty or blank identifier, returns no
\* empty string, and no empty string reaches the username call.
C5_BlankIsRejected ==
    (Lookup /\ norm.reached) =>
        /\ IsBlankStr(ident) => ~norm.out.ok
        /\ norm.out.ok => norm.out.value # <<>>
        /\ \A k \in 1..Len(calls) : calls[k].site = "username" => calls[k].arg # <<>>

\* C6: a lookup of an empty or blank identifier issues no call at all on the
\* collaborator: no session call, no get_entity, no GetFullUserRequest.
C6_BlankIssuesNoCall ==
    (Lookup /\ IsBlankStr(ident)) => calls = <<>>

\* C7: with fewer than 10 digits in the normalized identifier there is no phone
\* call, and no phone failure in the error message.
C7_PhoneNeedsTenDigits ==
    (ResolutionRan /\ Len(OnlyDigits(norm.out.value)) < 10) =>
        /\ \A k \in 1..Len(calls) : calls[k].site # "phone"
        /\ IsErrorResult =>
               \A k \in 1..Len(result.value.message) :
                   result.value.message[k] \notin {"Phone failed: ", "Phone error: "}

\* Nine digits and nothing else, every attempt failed: the ID call was made, the
\* phone call was not.
C7_Witness ==
    /\ ResolutionRan
    /\ ident = DigitRun(9)
    /\ failed = "resolve"
    /\ Len(ResolveCalls) = 2
    /\ ResolveCalls[2].site = "id"

RECURSIVE Pow10(_)
Pow10(n) == IF n = 0 THEN 1 ELSE 10 * Pow10(n - 1)

\* The number a string of decimal digits writes, digit by place value; a leading
\* zero adds nothing.
RECURSIVE DecimalValue(_)
DecimalValue(s) ==
    IF s = <<>> THEN 0
    ELSE IF Head(s) = "0" THEN DecimalValue(Tail(s))
    ELSE DigitValue(Head(s)) * Pow10(Len(s) - 1) + DecimalValue(Tail(s))

\* C8: an ID call is made only for a normalized identifier of decimal digits
\* alone (so none with a leading @ or +), and its argument is the number the
\* whole identifier writes.
C8_IdNeedsAllDigits ==
    Lookup =>
        \A k \in 1..Len(calls) :
            calls[k].site = "id" =>
                /\ ResolutionRan
                /\ \A j \in 1..Len(norm.out.value) : norm.out.value[j] \in Digits
                /\ calls[k].arg = DecimalValue(norm.out.value)

\* The ID call made for 012345678, nine digits with a leading zero, with the
\* number 12345678; the lookup went on to the profile.
C8_Witness ==
    /\ Lookup
    /\ ident = DigitRun(9)
    /\ Len(ResolveCalls) = 2
    /\ ResolveCalls[2].site = "id"
    /\ ResolveCalls[2].arg = 12345678
    /\ answers.id.ok
    /\ failed = "none"

\* C9: a second _ensure_started in a row on a live session issues no call and
\* changes nothing of the session.
C9_EnsureStartedIdempotent ==
    [][(op = "ensure_started" /\ client # None /\ connected /\ op' = "ensure_started") =>
          /\ calls' = <<>>
          /\ result' = Returned(None)
          /\ UNCHANGED <<client, nclients, connected, authorized, stopped>>]_vars

\* Two _ensure_started in a row, the second on a live session: one client, and
\* nothing issued by the second.
C9_Witness ==
    /\ op = "ensure_started"
    /\ streak = 2
    /\ connected
    /\ nclients = 1
    /\ calls = <<>>

\* C10 as stated: once _stop has released the session it is never connected again.
C10_StoppedIsTerminal == stopped => ~connected

\* C10 as amended: after _stop has released the session, only _ensure_started
\* (alone or inside get_user_info) connects it again, and it does so in place:
\* connect on the same client, no client constructed.
C10_StoppedUntilRestarted ==
    [][(stopped /\ ~connected /\ connected') =>
          /\ op' \in {"ensure_started", "get_user_info"}
          /\ client' = client
          /\ nclients' = nclients
          /\ calls' # <<>>
          /\ calls'[1] = SessionCall("connect")]_vars

\* A session that was released by _stop and is connected again, on its one client.
C10_Witness ==
    /\ stopped
    /\ connected
    /\ client # None
    /\ nclients = 1

\* C11: _stop in any state returns without raising and leaves the session not
\* connected; it issues one disconnect when a client exists and is connected and
\* nothing otherwise, so a _stop right after a _stop, or on a fetcher that was
\* never started, issues nothing; it keeps the client it found.
C11_StopIsSafe ==
    [][op' = "stop" =>
          /\ result' = Returned(None)
          /\ ~connected'
          /\ calls' = IF client # None /\ connected
                      THEN <<SessionCall("disconnect")>> ELSE <<>>
          /\ (op = "stop" \/ client = None) => calls' = <<>>
          /\ client' = client]_vars

\* A _stop on a session that an earlier _stop had released: nothing issued.
C11_Witness ==
    /\ op = "stop"
    /\ stopped
    /\ client # None
    /\ ~connected
    /\ calls = <<>>

\* d[key] on a dict: the value, or KeyError when the key is absent.
KeyError(key) == [cls |-> "KeyError", msg |-> <<"'", key, "'">>]

GetItem(d, key) == IF key \in DOMAIN d THEN Return(d[key]) ELSE Raise(KeyError(key))

\* The last get_user_info resolved its identifier and its GetFullUserRequest
\* answered with a full profile that has a photo list.
ResolvedAndFetched ==
    /\ ResolutionRan
    /\ Len(FetchCalls) = 1
    /\ answers.fetch.ok
    /\ HasAttr(answers.fetch.value.full_user, "profile_photos")

\* C12: when the identifier resolves and the full profile is fetched, the record
\* get_user_info returns can be read at 'error' and yields false there, its id is
\* the resolved user's id, and its profile_photos_count is the length of the full
\* profile's photo list.
C12_SuccessIsNonError ==
    ResolvedAndFetched =>
        /\ result.kind = "returned"
        /\ GetItem(result.value, "error") = Return(FALSE)
        /\ result.value.id = FetchCalls[1].arg.id
        /\ result.value.profile_photos_count
               = Len(answers.fetch.value.full_user.profile_photos)

\* The keys _format_user_info writes: those of the dict literal and 'profile_photo'.
UserProfileFields ==
    {"id", "access_hash", "first_name", "last_name", "username", "phone", "is_bot",
     "is_premium", "is_verified", "is_scam", "status", "about", "profile_photos_count",
     "has_video_profile_photo", "profile_photo"}

\* The last get_user_info returned what _format_user_info produced.
IsUserProfile == Lookup /\ failed = "none"

\* C13: every record _format_user_info produces has the same keys, 'profile_photo'
\* among them, and holds None at 'about' and 'profile_photo' when the full profile
\* has no bio and no photo.
C13_FixedSchema ==
    IsUserProfile =>
        LET fu == answers.fetch.value.full_user
        IN  /\ DOMAIN result.value = UserProfileFields
            /\ ~HasAttr(fu, "about") => result.value.about = None
            /\ fu.profile_photos = <<>> => result.value.profile_photo = None

\* C14: for a non-empty identifier that _normalize_identifier accepts, normalizing
\* the normalized identifier again succeeds and returns it unchanged.
C14_NormalizeIdempotent ==
    (Lookup /\ norm.reached /\ ident # <<>> /\ norm.out.ok) =>
        NormalizeIdentifier(norm.out.value) = Return(norm.out.value)

\* The tokens an attempt's failure leaves in a message.
AttemptTraces ==
    {"Username failed: ", "Username error: ", "Phone failed: ", "Phone error: ",
     "ID failed: ", "ID error: ", "Cannot resolve \"", "\". Tried: "}

\* The last resolution made a call after its first, and its last call succeeded.
LaterAttemptSucceeded ==
    /\ ResolutionRan
    /\ Len(ResolveCalls) >= 2
    /\ answers[ResolveCalls[Len(ResolveCalls)].site].ok

\* C15: whatever the username call or the phone call failed with, the resolution
\* goes on: after a failed username call the phone call is made when the identifier
\* has 10 digits, and the ID call when it is all digits and the phone call did not
\* succeed. When a later call succeeds the resolution succeeds with its user: the
\* profile is fetched for it, what the lookup returns holds no trace of the failed
\* attempts, and it is that user's profile when fetch and formatting succeed.
C15_FailedAttemptDoesNotAbort ==
    ResolutionRan =>
        LET n == norm.out.value
            R == ResolveCalls
            phoneOk == PhoneAttempted(n) /\ answers.phone.ok
        IN  /\ ~answers.username.ok =>
                  /\ PhoneAttempted(n) => \E k \in 1..Len(R) : R[k].site = "phone"
                  /\ (IdAttempted(n) /\ ~phoneOk) => \E k \in 1..Len(R) : R[k].site = "id"
            /\ LaterAttemptSucceeded =>
                  /\ failed \in {"none", "fetch", "format"}
                  /\ Len(FetchCalls) = 1
                  /\ FetchCalls[1].arg = answers[R[Len(R)].site].value
                  /\ IsErrorResult =>
                        /\ failed \in {"fetch", "format"}
                        /\ \A k \in 1..Len(result.value.message) :
                               result.value.message[k] \notin AttemptTraces
                  /\ (answers.fetch.ok
                        /\ HasAttr(answers.fetch.value.full_user, "profile_photos")) =>
                        /\ IsUserProfile
                        /\ ~IsErrorResult
                        /\ "message" \notin DOMAIN result.value
                        /\ result.value.id = answers[R[Len(R)].site].value.id

\* Ten digits: the username call and the phone call both failed on the transport,
\* the ID call succeeded, and the lookup returned the profile of the ID's user.
C15_Witness ==
    /\ LaterAttemptSucceeded
    /\ ident = DigitRun(10)
    /\ answers.username = Raise(TransportError)
    /\ answers.phone = Raise(TransportError)
    /\ Len(ResolveCalls) = 3
    /\ IsUserProfile
    /\ result.value.id = UserFor("id").id

\* C16: a get_user_info issues GetFullUserRequest at most once; when it does, the
\* request is the last call of the lookup, the call before it is a get_entity call
\* that succeeded, and the request carries the user that call returned; when the
\* session start, the normalization or every attempt fails there is no request.
C16_FetchOnceAfterResolve ==
    Lookup =>
        /\ Len(FetchCalls) <= 1
        /\ Len(FetchCalls) = 1 =>
              /\ ResolutionRan
              /\ Len(calls) >= 2
              /\ calls[Len(calls)].fn = "GetFullUserRequest"
              /\ calls[Len(calls) - 1].fn = "get_entity"
              /\ answers[calls[Len(calls) - 1].site].ok
              /\ calls[Len(calls)].arg = answers[calls[Len(calls) - 1].site].value
        /\ (failed \in {"start", "normalize", "resolve"}) => FetchCalls = <<>>
        /\ (ResolutionRan /\ \A k \in 1..Len(ResolveCalls) : ~answers[ResolveCalls[k].site].ok)
              => FetchCalls = <<>>

\* A lookup whose username call failed and whose phone call succeeded: one
\* request, after the two get_entity calls, for the phone's user.
C16_Witness ==
    /\ Lookup
    /\ Len(FetchCalls) = 1
    /\ Len(ResolveCalls) = 2
    /\ ~answers.username.ok
    /\ calls[Len(calls)] = FetchCall(UserFor("phone"))

\* The calls of the last operation on the session: TelegramClient, start, connect,
\* disconnect.
SessionCallsOf(cs) == SelectSeq(cs, LAMBDA c : c.site = "session")

\* The calls of the last operation on the directory: get_entity, GetFullUserRequest.
DirectoryCallsOf(cs) == SelectSeq(cs, LAMBDA c : c.site # "session")

\* C17: on a fetcher whose client exists and is not connected, _ensure_started
\* (alone or as the first step of get_user_info) keeps the client and constructs
\* none, issues connect first, issues start after it only when the session is not
\* authorized, and is connected when it returns; and the get_entity and
\* GetFullUserRequest calls of a get_user_info are made only after its
\* _ensure_started returned with the session connected.
C17_ReconnectInPlace ==
    [][/\ (client # None /\ ~connected /\ op' \in {"ensure_started", "get_user_info"}) =>
            LET sess == SessionCallsOf(calls')
                returned == IF op' = "ensure_started"
                            THEN result' = Returned(None) ELSE failed' # "start"
            IN  /\ client' = client
                /\ nclients' = nclients
                /\ sess \in { <<SessionCall("connect")>>,
                              <<SessionCall("connect"), SessionCall("start")>> }
                /\ Len(sess) = 2 => ~authorized
                /\ (returned /\ ~authorized) => Len(sess) = 2
                /\ returned => connected' /\ authorized'
       /\ op' = "get_user_info" =>
            (DirectoryCallsOf(calls') # <<>> => connected' /\ failed' # "start")]_vars

\* A lookup on a fetcher that had a client and no connection: connect and start
\* were issued on the one client, then the directory was called.
C17_Witness ==
    /\ Lookup
    /\ ~stopped
    /\ nclients = 1
    /\ Len(calls) >= 3
    /\ calls[1] = SessionCall("connect")
    /\ calls[2] = SessionCall("start")
    /\ calls[3].fn = "get_entity"
    /\ connected

\* C18: a lookup one of whose get_entity calls failed on the transport returns an
\* error record.
C18_TransportFailurePropagates ==
    (ResolutionRan
       /\ \E k \in 1..Len(ResolveCalls) :
              answers[ResolveCalls[k].site] = Raise(TransportError))
        => IsErrorResult

Disconnects(cs) == \E k \in 1..Len(cs) : cs[k] = SessionCall("disconnect")

\* C19: a get_user_info, whatever its outcome, issues no disconnect, leaves a
\* session that was connected connected, and returns with the session as its
\* start step left it: connected whenever that step succeeded. A disconnect is
\* issued by _stop alone, and apart from _stop only the network ends a connection.
C19_LookupKeepsSession ==
    [][/\ op' = "get_user_info" =>
            /\ ~Disconnects(calls')
            /\ connected => connected'
            /\ failed' # "start" => connected'
            /\ client' # None
       /\ Disconnects(calls') => op' = "stop"
       /\ (connected /\ ~connected') => op' \in {"stop", "drop"}]_vars

\* A lookup on a live session that failed at the fetch: it issued nothing on the
\* session and the session is still connected.
C19_Witness ==
    /\ Lookup
    /\ failed = "fetch"
    /\ SessionCallsOf(calls) = <<>>
    /\ IsErrorResult
    /\ connected

\* C20: under any interleaving of _ensure_started, get_user_info and _stop at
\* their awaits, one TelegramClient at most is ever constructed: self.client goes
\* from None to the client in a step that constructs the first one, and once set
\* it is never None again, never another client, and nothing more is constructed.
C20_OneClientEver ==
    [][/\ nclients' <= 1
       /\ client = None => (client' # None <=> nclients' = nclients + 1)
       /\ client # None => (client' = client /\ nclients' = nclients)]_vars

\* Two lookups in flight on a fresh fetcher, the first awaiting start() and the
\* second, begun before that returned, awaiting connect(): one client.
C20_Witness ==
    /\ tasks[1].kind = "get_user_info"
    /\ tasks[1].pc = "start"
    /\ tasks[2].kind = "get_user_info"
    /\ tasks[2].pc = "connect"
    /\ ~connected
    /\ ~stopped
    /\ client # None
    /\ nclients = 1

====
